---- MODULE Spec2Model ----
(***************************************************************************)
(* Badminton court booking backend: the venue registry, the booking        *)
(* allocator, the slot grid generator and the availability calculator,     *)
(* over three document collections (venues, bookings, slots).              *)
(*                                                                         *)
(* Instants are whole hours counted from an epoch.  A request field is an  *)
(* input value [k, v]: k = "absent" (undefined / empty), k = "junk" (a     *)
(* string that does not parse as what the field needs) or k = "ok" with    *)
(* the value v it denotes.                                                 *)
(***************************************************************************)
EXTENDS Integers, Sequences, FiniteSets, TLC

\* ------------------------------------------------------------------ bounds
MaxTime == 2
MaxNow == 2
MaxVenues == 2
MaxBookings == 2

\* ------------------------------------------------------ program constants
FirstHour == 9
EndHour == 17
HoursPerDay == 24

\* ------------------------------------------------------------ input values
Absent == [k |-> "absent", v |-> 0]
Junk == [k |-> "junk", v |-> 0]
Val(n) == [k |-> "ok", v |-> n]
\* the number n + 1/2
Half(n) == [k |-> "half", v |-> n]

Instants == 0..MaxTime
VenueIds == 1..MaxVenues
BookingIds == 1..MaxBookings
Courts == {"Court 1", "Court 2"}

\* requests with every field present and parseable
WellFormedBookings ==
    [venueId : {Val(i) : i \in VenueIds}, courtNumber : Courts,
     startTime : {Val(t) : t \in Instants}, endTime : {Val(t) : t \in Instants},
     bookedBy : {"Alice"}]

BaseBooking ==
    [venueId |-> Val(1), courtNumber |-> "Court 1", startTime |-> Val(0),
     endTime |-> Val(1), bookedBy |-> "Alice"]

\* requests with a field missing or unparseable
DefectiveBookings ==
    {[BaseBooking EXCEPT !.venueId = Absent],
     [BaseBooking EXCEPT !.venueId = Junk],
     [BaseBooking EXCEPT !.venueId = Junk, !.endTime = Val(0)],
     [BaseBooking EXCEPT !.courtNumber = ""],
     [BaseBooking EXCEPT !.startTime = Absent],
     [BaseBooking EXCEPT !.endTime = Absent],
     [BaseBooking EXCEPT !.bookedBy = ""],
     [BaseBooking EXCEPT !.startTime = Junk],
     [BaseBooking EXCEPT !.endTime = Junk],
     [BaseBooking EXCEPT !.startTime = Junk, !.endTime = Junk]}

BookingRequests == WellFormedBookings \cup DefectiveBookings

BookingIdInputs == {Junk} \cup {Val(i) : i \in BookingIds}
VenueIdInputs == {Junk} \cup {Val(i) : i \in VenueIds}

\* <<name, maxCourts>> bodies of venue requests
VenueInputs ==
    {<<"Arena A", Val(1)>>, <<"Arena B", Val(2)>>,
     <<"", Val(1)>>, <<"Arena A", Absent>>, <<"Arena A", Val(0)>>}

VARIABLES
    strictQuery,   \* whether the ODM drops filter paths the schema lacks
    strictPopulate,\* whether the ODM refuses to populate a path the schema lacks
    live,          \* which of its two definitions an export of the booking
                   \* controller resolves to
    venues,        \* the venues collection
    bookings,      \* the bookings collection
    slots,         \* the slots collection
    bookedFor,     \* history: booking id -> venueId of the creating request
    nextVenue,     \* ids handed out so far, per collection
    nextBooking,
    nextSlot,
    now,           \* the wall clock, in hours
    res,           \* the response sent to the last completed request
    inflight       \* the requests suspended at an await, per client

vars == <<strictQuery, strictPopulate, live, venues, bookings, slots, bookedFor,
          nextVenue, nextBooking, nextSlot, now, res, inflight>>

db == <<venues, bookings, slots, bookedFor, nextVenue, nextBooking, nextSlot>>
config == <<strictQuery, strictPopulate, live>>

\* ---------------------------------------------------------------- helpers
\* !x on a request field
Falsy(x) == x.k = "absent"

\* new Date(x): an instant, or Invalid Date
NewDate(x) == IF x.k = "ok" THEN [valid |-> TRUE, t |-> x.v]
                            ELSE [valid |-> FALSE, t |-> 0]

\* a <= b on Dates: false as soon as one side is Invalid Date (NaN)
DateLE(a, b) == a.valid /\ b.valid /\ a.t <= b.t

\* isNaN(d.getTime())
IsNaNDate(d) == ~d.valid

\* whether a string casts to an ObjectId
CastableId(x) == x.k = "ok"

\* new Model(obj) under a strict schema: paths the schema lacks are dropped
Construct(paths, obj) == [f \in (DOMAIN obj) \cap paths |-> obj[f]]

Response(op, status, message, id) ==
    [op |-> op, status |-> status, message |-> message, id |-> id, data |-> <<>>]

\* a handler that has not answered yet
Continue == Response("", 0, "", 0)

Reply(r) == res' = r

\* ----------------------------------------------------------------- schemas
BookingPaths == {"id", "courtNumber", "startTime", "endTime", "bookedBy", "bookingDate"}

VenuePaths == {"id", "name", "maxCourts"}

SlotPaths == {"id", "venue", "courtNumber", "startTime", "endTime", "bookedBy",
              "bookingDate", "isSlotBooked"}

\* ---------------------------------------------------------------- messages
MsgAllFields == "All fields (venueId, courtNumber, startTime, endTime, bookedBy) are required."
MsgAllFields2 == "All fields (courtNumber, startTime, endTime, bookedBy) are required."
MsgEndAfterStart == "End time must be after start time."
MsgVenueNotFound == "Venue not found."
MsgAlreadyBooked(courtNumber) ==
    "Court " \o courtNumber \o " is already booked for the specified time at this venue."
MsgBooked == "Court booked successfully!"
MsgBookingError == "Server error while booking court."
MsgBookingNotFound == "Booking not found."
MsgBookingDeleted == "Booking deleted successfully!"
MsgDeleteBookingError == "Server error while deleting booking."

\* ----------------------------------------------------------------- queries
\* Venue.findById(id): the venue, as a set of at most one document
FindVenue(vs, id) == {v \in vs : v.id = id}

\* one filter condition { path: value } on a collection with the given schema
\* paths: a path the schema lacks is dropped from the filter under strictQuery
\* and otherwise matches no document, since none stores it
PathEquals(paths, doc, path, value) ==
    IF path \in paths THEN doc[path] = value
    ELSE IF strictQuery THEN TRUE
    ELSE path \in DOMAIN doc /\ doc[path] = value

\* mutant: closed intervals, $lte / $gte
TimeFilterClosed(doc, newStart, newEnd) ==
    /\ doc.startTime <= newEnd
    /\ doc.endTime >= newStart

\* startTime: { $lt: newEndTime }, endTime: { $gt: newStartTime }
TimeFilter(doc, newStart, newEnd) ==
    /\ doc.startTime < newEnd
    /\ doc.endTime > newStart

\* the filter of createBooking's Booking.findOne
ConflictFilter(doc, venueId, courtNumber, newStart, newEnd) ==
    /\ PathEquals(BookingPaths, doc, "venue", venueId)
    /\ doc.courtNumber = courtNumber
    /\ TimeFilter(doc, newStart, newEnd)

\* startTime: { $lt: checkEndTime }, endTime: { $gt: checkStartTime }
AvailabilityTimeFilter(doc, checkStart, checkEnd) ==
    /\ doc.startTime < checkEnd
    /\ doc.endTime > checkStart

\* the filter of getVenueAvailability's Booking.countDocuments
AvailabilityFilter(doc, id, checkStart, checkEnd) ==
    /\ PathEquals(BookingPaths, doc, "venue", id)
    /\ AvailabilityTimeFilter(doc, checkStart, checkEnd)

\* ------------------------------------------------- createBooking (line 14)
\* !venueId || !courtNumber || !startTime || !endTime || !bookedBy
MissingField(r) ==
    \/ Falsy(r.venueId)
    \/ r.courtNumber = ""
    \/ Falsy(r.startTime)
    \/ Falsy(r.endTime)
    \/ r.bookedBy = ""

\* mutant: newEndTime < newStartTime
EndBeforeStartOnly(newStart, newEnd) ==
    newStart.valid /\ newEnd.valid /\ newEnd.t < newStart.t

\* newEndTime <= newStartTime
EndNotAfterStart(newStart, newEnd) == DateLE(newEnd, newStart)

\* the synchronous prefix of the handler: field and order validation
Validate(r) ==
    IF MissingField(r)
    THEN Response("createBooking", 400, MsgAllFields, 0)
    ELSE IF EndNotAfterStart(NewDate(r.startTime), NewDate(r.endTime))
    THEN Response("createBooking", 400, MsgEndAfterStart, 0)
    ELSE Continue

\* await Venue.findById(venueId): a CastError lands in the catch block
VenueLookup(r, vs) ==
    IF ~CastableId(r.venueId)
    THEN Response("createBooking", 500, MsgBookingError, 0)
    ELSE IF FindVenue(vs, r.venueId.v) = {}
    THEN Response("createBooking", 404, MsgVenueNotFound, 0)
    ELSE Continue

\* await Booking.findOne({...}): casting an Invalid Date into the filter throws
ConflictLookup(r, bks) ==
    LET newStart == NewDate(r.startTime)
        newEnd == NewDate(r.endTime)
    IN  IF IsNaNDate(newStart) \/ IsNaNDate(newEnd)
        THEN Response("createBooking", 500, MsgBookingError, 0)
        ELSE IF \E b \in bks :
                    ConflictFilter(b, r.venueId.v, r.courtNumber, newStart.t, newEnd.t)
        THEN Response("createBooking", 409, MsgAlreadyBooked(r.courtNumber), 0)
        ELSE Continue

\* new Booking({ venue: venueId, courtNumber, startTime, endTime, bookedBy,
\* bookingDate: new Date() })
NewBooking(r, id, clock) ==
    Construct(BookingPaths,
              [id |-> id, venue |-> r.venueId.v, courtNumber |-> r.courtNumber,
               startTime |-> NewDate(r.startTime).t, endTime |-> NewDate(r.endTime).t,
               bookedBy |-> r.bookedBy, bookingDate |-> clock])

\* mutant: the save replaces the bookings of the same court
SaveBookingUpsert(r, doc) ==
    /\ nextBooking < MaxBookings
    /\ nextBooking' = nextBooking + 1
    /\ bookings' = {b \in bookings : b.courtNumber # doc.courtNumber} \cup {doc}
    /\ bookedFor' = bookedFor @@ ((nextBooking + 1) :> r.venueId)
    /\ Reply(Response("createBooking", 201, MsgBooked, nextBooking + 1))
    /\ UNCHANGED <<venues, slots, nextVenue, nextSlot>>

\* await newBooking.save() and the 201 response
SaveBooking(r, doc) ==
    /\ nextBooking < MaxBookings
    /\ nextBooking' = nextBooking + 1
    /\ bookings' = bookings \cup {doc}
    /\ bookedFor' = bookedFor @@ ((nextBooking + 1) :> r.venueId)
    /\ Reply(Response("createBooking", 201, MsgBooked, nextBooking + 1))
    /\ UNCHANGED <<venues, slots, nextVenue, nextSlot>>

\* what the handler answers before it writes, if it answers at all
Rejection(r, vs, bks) ==
    LET v == Validate(r)
        l == VenueLookup(r, vs)
    IN  IF v # Continue THEN v
        ELSE IF l # Continue THEN l
        ELSE ConflictLookup(r, bks)

\* the response of the handler run to completion: a rejection, or the 201
\* that follows the save
Answer(r, vs, bks) ==
    LET rej == Rejection(r, vs, bks)
    IN  IF rej # Continue THEN rej
        ELSE Response("createBooking", 201, MsgBooked, nextBooking + 1)

Idle == \A p \in DOMAIN inflight : inflight[p].pc = "idle"

\* mutant: a court that has a generated slot is refused
createBookingBySlot(r) ==
    /\ live = "first"
    /\ Idle
    /\ LET out == Answer(r, venues, bookings)
       IN  IF \E s \in slots : s.courtNumber = r.courtNumber
           THEN Reply(Response("createBooking", 409, MsgAlreadyBooked(r.courtNumber), 0))
                /\ UNCHANGED db
           ELSE IF out.status # 201
           THEN Reply(out) /\ UNCHANGED db
           ELSE SaveBooking(r, NewBooking(r, nextBooking + 1, now))
    /\ UNCHANGED <<config, now, inflight>>

\* POST /api/bookings served by the definition at line 14, run to completion
createBooking(r) ==
    /\ live = "first"
    /\ Idle
    /\ LET out == Answer(r, venues, bookings)
       IN  IF out.status # 201
           THEN Reply(out) /\ UNCHANGED db
           ELSE SaveBooking(r, NewBooking(r, nextBooking + 1, now))
    /\ UNCHANGED <<config, now, inflight>>

\* ------------------------------------------------ createBooking (line 417)
\* !courtNumber || !startTime || !endTime || !bookedBy
MissingField2(r) ==
    \/ r.courtNumber = ""
    \/ Falsy(r.startTime)
    \/ Falsy(r.endTime)
    \/ r.bookedBy = ""

Validate2(r) ==
    IF MissingField2(r)
    THEN Response("createBooking", 400, MsgAllFields2, 0)
    ELSE IF EndNotAfterStart(NewDate(r.startTime), NewDate(r.endTime))
    THEN Response("createBooking", 400, MsgEndAfterStart, 0)
    ELSE Continue

\* newBooking.save() validates the document: an Invalid Date fails the cast
SaveValidation2(r) ==
    IF IsNaNDate(NewDate(r.startTime)) \/ IsNaNDate(NewDate(r.endTime))
    THEN Response("createBooking", 500, MsgBookingError, 0)
    ELSE Continue

\* new Booking({ courtNumber, startTime, endTime, bookedBy, bookingDate: new Date() })
NewBooking2(r, id, clock) ==
    Construct(BookingPaths,
              [id |-> id, courtNumber |-> r.courtNumber,
               startTime |-> NewDate(r.startTime).t, endTime |-> NewDate(r.endTime).t,
               bookedBy |-> r.bookedBy, bookingDate |-> clock])

Rejection2(r) ==
    LET v == Validate2(r)
    IN  IF v # Continue THEN v ELSE SaveValidation2(r)

Answer2(r) ==
    LET rej == Rejection2(r)
    IN  IF rej # Continue THEN rej
        ELSE Response("createBooking", 201, MsgBooked, nextBooking + 1)

\* POST /api/bookings served by the definition at line 417, run to completion
createBooking2(r) ==
    /\ live = "second"
    /\ Idle
    /\ LET out == Answer2(r)
       IN  IF out.status # 201
           THEN Reply(out) /\ UNCHANGED db
           ELSE SaveBooking(r, NewBooking2(r, nextBooking + 1, now))
    /\ UNCHANGED <<config, now, inflight>>

\* router.post('/', bookingController.createBooking): the response of the
\* definition the export resolves to, for request r in the current state
PostBookings(r) ==
    IF live = "first" THEN Answer(r, venues, bookings) ELSE Answer2(r)

\* ------------------------------------------------------------ deleteBooking
deleteBooking(id) ==
    /\ Idle
    /\ IF ~CastableId(id)
       THEN Reply(Response("deleteBooking", 500, MsgDeleteBookingError, 0))
            /\ UNCHANGED db
       ELSE IF \A b \in bookings : b.id # id.v
       THEN Reply(Response("deleteBooking", 404, MsgBookingNotFound, 0))
            /\ UNCHANGED db
       ELSE /\ bookings' = {b \in bookings : b.id # id.v}
            /\ bookedFor' = [i \in DOMAIN bookedFor \ {id.v} |-> bookedFor[i]]
            /\ Reply(Response("deleteBooking", 200, MsgBookingDeleted, id.v))
            /\ UNCHANGED <<venues, slots, nextVenue, nextBooking, nextSlot>>
    /\ UNCHANGED <<config, now, inflight>>

\* ------------------------------------------------------------------ venues
MsgVenueInvalid == "Venue name and a valid maxCourts (minimum 1) are required."
MsgVenueInvalidUpdate == "Venue name and a valid maxCourts (minimum 1) are required for update."
MsgVenueCreated == "Venue created successfully!"
MsgVenueExists == "A venue with this name already exists."
MsgVenueUpdated == "Venue updated successfully!"
MsgVenueDeleted == "Venue deleted successfully!"
MsgCreateVenueError == "Server error while creating venue."
MsgUpdateVenueError == "Server error while updating venue."
MsgDeleteVenueError == "Server error while deleting venue."

\* !name || maxCourts === undefined || maxCourts < 1; a string that is no
\* number compares as NaN, which is not below 1
InvalidVenue(name, maxCourts) ==
    \/ name = ""
    \/ Falsy(maxCourts)
    \/ (maxCourts.k \in {"ok", "half"} /\ maxCourts.v < 1)

\* the stored venue: maxCourts holds the integer part of the stored number and
\* whole tells whether the number is that integer
VenueDoc(id, name, maxCourts) ==
    [id |-> id, name |-> name, maxCourts |-> maxCourts.v,
     whole |-> maxCourts.k = "ok"]

\* mutant: no unique index
NameTakenNever(vs, name, self) == FALSE

\* the unique index on name: another venue already holds it
NameTaken(vs, name, self) == \E v \in vs : v.name = name /\ v.id # self

createVenue(name, maxCourts) ==
    /\ Idle
    /\ IF InvalidVenue(name, maxCourts)
       THEN Reply(Response("createVenue", 400, MsgVenueInvalid, 0)) /\ UNCHANGED db
       ELSE IF maxCourts.k = "junk"
       THEN Reply(Response("createVenue", 500, MsgCreateVenueError, 0)) /\ UNCHANGED db
       ELSE IF NameTaken(venues, name, 0)
       THEN Reply(Response("createVenue", 409, MsgVenueExists, 0)) /\ UNCHANGED db
       ELSE /\ nextVenue < MaxVenues
            /\ nextVenue' = nextVenue + 1
            /\ venues' = venues \cup {VenueDoc(nextVenue + 1, name, maxCourts)}
            /\ Reply(Response("createVenue", 201, MsgVenueCreated, nextVenue + 1))
            /\ UNCHANGED <<bookings, slots, bookedFor, nextBooking, nextSlot>>
    /\ UNCHANGED <<config, now, inflight>>

\* mutant: the update is applied before the name is found taken
updateVenueWriteFirst(id, name, maxCourts) ==
    /\ Idle
    /\ IF InvalidVenue(name, maxCourts)
       THEN Reply(Response("updateVenue", 400, MsgVenueInvalidUpdate, 0)) /\ UNCHANGED db
       ELSE IF ~CastableId(id) \/ maxCourts.k = "junk"
       THEN Reply(Response("updateVenue", 500, MsgUpdateVenueError, 0)) /\ UNCHANGED db
       ELSE IF FindVenue(venues, id.v) = {}
       THEN Reply(Response("updateVenue", 404, MsgVenueNotFound, 0)) /\ UNCHANGED db
       ELSE /\ venues' = {v \in venues : v.id # id.v} \cup
                    {VenueDoc(id.v, name, maxCourts)}
            /\ Reply(IF NameTaken(venues, name, id.v)
                     THEN Response("updateVenue", 409, MsgVenueExists, 0)
                     ELSE Response("updateVenue", 200, MsgVenueUpdated, id.v))
            /\ UNCHANGED <<bookings, slots, bookedFor, nextVenue, nextBooking, nextSlot>>
    /\ UNCHANGED <<config, now, inflight>>

updateVenue(id, name, maxCourts) ==
    /\ Idle
    /\ IF InvalidVenue(name, maxCourts)
       THEN Reply(Response("updateVenue", 400, MsgVenueInvalidUpdate, 0)) /\ UNCHANGED db
       ELSE IF ~CastableId(id) \/ maxCourts.k = "junk"
       THEN Reply(Response("updateVenue", 500, MsgUpdateVenueError, 0)) /\ UNCHANGED db
       ELSE IF FindVenue(venues, id.v) = {}
       THEN Reply(Response("updateVenue", 404, MsgVenueNotFound, 0)) /\ UNCHANGED db
       ELSE IF NameTaken(venues, name, id.v)
       THEN Reply(Response("updateVenue", 409, MsgVenueExists, 0)) /\ UNCHANGED db
       ELSE /\ venues' = {v \in venues : v.id # id.v} \cup
                    {VenueDoc(id.v, name, maxCourts)}
            /\ Reply(Response("updateVenue", 200, MsgVenueUpdated, id.v))
            /\ UNCHANGED <<bookings, slots, bookedFor, nextVenue, nextBooking, nextSlot>>
    /\ UNCHANGED <<config, now, inflight>>

\* mutant: the slots of the venue go with it
deleteVenueCascade(id) ==
    /\ Idle
    /\ IF ~CastableId(id)
       THEN Reply(Response("deleteVenue", 500, MsgDeleteVenueError, 0)) /\ UNCHANGED db
       ELSE IF FindVenue(venues, id.v) = {}
       THEN Reply(Response("deleteVenue", 404, MsgVenueNotFound, 0)) /\ UNCHANGED db
       ELSE /\ venues' = {v \in venues : v.id # id.v}
            /\ slots' = {sl \in slots : sl.venue # id.v}
            /\ Reply(Response("deleteVenue", 200, MsgVenueDeleted, id.v))
            /\ UNCHANGED <<bookings, bookedFor, nextVenue, nextBooking, nextSlot>>
    /\ UNCHANGED <<config, now, inflight>>

deleteVenue(id) ==
    /\ Idle
    /\ IF ~CastableId(id)
       THEN Reply(Response("deleteVenue", 500, MsgDeleteVenueError, 0)) /\ UNCHANGED db
       ELSE IF FindVenue(venues, id.v) = {}
       THEN Reply(Response("deleteVenue", 404, MsgVenueNotFound, 0)) /\ UNCHANGED db
       ELSE /\ venues' = {v \in venues : v.id # id.v}
            /\ Reply(Response("deleteVenue", 200, MsgVenueDeleted, id.v))
            /\ UNCHANGED <<bookings, slots, bookedFor, nextVenue, nextBooking, nextSlot>>
    /\ UNCHANGED <<config, now, inflight>>

\* ------------------------------------------------ generateDailyBookingSlots
MsgNoVenues == "No venues found to generate slots for."
MsgSlotsGenerated == "Daily booking slots generated successfully."

\* tomorrow.setDate(today.getDate() + 1); tomorrow.setHours(0, 0, 0, 0)
Tomorrow(clock) == ((clock \div HoursPerDay) + 1) * HoursPerDay

\* `Court ${court}`
CourtName(court) == "Court " \o ToString(court)

\* mutant: hour <= 17
SlotsPerCourtInclusive == EndHour - FirstHour + 1

\* for (let hour = 9; hour < 17; hour++)
SlotsPerCourt == EndHour - FirstHour

\* mutant: the 404 guard never fires
NoVenuesNever(vs) == FALSE

\* venues.length === 0
NoVenues(vs) == Cardinality(vs) = 0

\* the (court, hour) iterations of one venue, in loop order
VenueIterations(v) ==
    [k \in 1..(v.maxCourts * SlotsPerCourt) |->
        [venue |-> v.id,
         court |-> ((k - 1) \div SlotsPerCourt) + 1,
         hour |-> FirstHour + ((k - 1) % SlotsPerCourt)]]

\* the iterations over Venue.find({}), venues in insertion order
RECURSIVE Iterations(_, _)
Iterations(vs, from) ==
    IF \A v \in vs : v.id < from THEN <<>>
    ELSE LET here == {v \in vs : v.id = from}
         IN  (IF here = {} THEN <<>> ELSE VenueIterations(CHOOSE v \in here : TRUE))
             \o Iterations(vs, from + 1)

\* mutant: the lookup ignores the slot's times
SlotFilterAnyHour(doc, venue, courtNumber, startTime, endTime) ==
    /\ doc.venue = venue
    /\ doc.courtNumber = courtNumber

\* mutant: the lookup ignores the venue and matches on the end time alone
SlotFilterOtherVenue(doc, venue, courtNumber, startTime, endTime) ==
    /\ doc.venue # venue
    /\ doc.endTime = endTime

\* Slot.findOne({ venue, courtNumber, startTime, endTime })
SlotFilter(doc, venue, courtNumber, startTime, endTime) ==
    /\ doc.venue = venue
    /\ doc.courtNumber = courtNumber
    /\ doc.startTime = startTime
    /\ doc.endTime = endTime

\* Slot.create({ ..., bookedBy: 'AUTO', isSlotBooked: false })
NewSlot(it, id, clock) ==
    Construct(SlotPaths,
              [id |-> id, venue |-> it.venue, courtNumber |-> CourtName(it.court),
               startTime |-> Tomorrow(clock) + it.hour,
               endTime |-> Tomorrow(clock) + it.hour + 1,
               bookedBy |-> "AUTO", isSlotBooked |-> FALSE, bookingDate |-> clock])

\* the loop of lines 215-249 from iteration i on: the slots, the ids of the
\* created ones and the skip count it ends with
RECURSIVE GenerateLoop(_, _, _, _, _, _)
GenerateLoop(its, i, sl, created, skipped, clock) ==
    IF i > Len(its) THEN [slots |-> sl, created |-> created, skipped |-> skipped]
    ELSE LET it == its[i]
             doc == NewSlot(it, nextSlot + Len(created) + 1, clock)
         IN  IF \E s \in sl : SlotFilter(s, doc.venue, doc.courtNumber,
                                         doc.startTime, doc.endTime)
             THEN GenerateLoop(its, i + 1, sl, created, skipped + 1, clock)
             ELSE GenerateLoop(its, i + 1, sl \cup {doc}, Append(created, doc.id),
                               skipped, clock)

generateDailyBookingSlots ==
    /\ Idle
    /\ IF NoVenues(venues)
       THEN /\ Reply(Response("generateDailyBookingSlots", 404, MsgNoVenues, 0))
            /\ UNCHANGED db
       ELSE LET out == GenerateLoop(Iterations(venues, 1), 1, slots, <<>>, 0, now)
            IN  /\ slots' = out.slots
                /\ nextSlot' = nextSlot + Len(out.created)
                /\ Reply([Response("generateDailyBookingSlots", 201, MsgSlotsGenerated, 0)
                          EXCEPT !.data = <<Len(out.created), out.skipped>>])
                /\ UNCHANGED <<venues, bookings, bookedFor, nextVenue, nextBooking>>
    /\ UNCHANGED <<config, now, inflight>>

\* ------------------------------------------------------------------- clock
Tick ==
    /\ now < MaxNow
    /\ now' = now + 1
    /\ UNCHANGED <<config, db, res, inflight>>

\* ----------------------------------------------------------- specification
NoProcs == <<>>

Init ==
    /\ strictQuery \in BOOLEAN
    /\ strictPopulate = TRUE
    /\ live \in {"first", "second"}
    /\ venues = {}
    /\ bookings = {}
    /\ slots = {}
    /\ bookedFor = <<>>
    /\ nextVenue = 0
    /\ nextBooking = 0
    /\ nextSlot = 0
    /\ now = 0
    /\ res = Continue
    /\ inflight = NoProcs

Next ==
    \/ \E r \in BookingRequests : createBooking(r)
    \/ \E r \in BookingRequests : createBooking2(r)
    \/ \E id \in BookingIdInputs : deleteBooking(id)
    \/ \E b \in VenueInputs : createVenue(b[1], b[2])
    \/ \E id \in VenueIdInputs, b \in VenueInputs : updateVenue(id, b[1], b[2])
    \/ \E id \in VenueIdInputs : deleteVenue(id)

Spec == Init /\ [][Next]_vars

\* requests run one at a time against venues, bookings and the slot grid
GridBookings ==
    {r \in WellFormedBookings : r.startTime = Val(0) /\ r.endTime = Val(1)}

NextGrid ==
    \/ \E r \in GridBookings : createBooking(r)
    \/ \E r \in GridBookings : createBooking2(r)
    \/ \E b \in {i \in VenueInputs : ~InvalidVenue(i[1], i[2])} : createVenue(b[1], b[2])
    \/ \E id \in {Val(i) : i \in VenueIds},
          b \in {i \in VenueInputs : ~InvalidVenue(i[1], i[2])} : updateVenue(id, b[1], b[2])
    \/ \E id \in {Val(i) : i \in VenueIds} : deleteVenue(id)
    \/ generateDailyBookingSlots

SpecGrid == Init /\ [][NextGrid]_vars

\* ------------------------------------------- createBooking, await by await
\* Each await of the handler is a point where another request may run.
MaxProcs == 2
Procs == 1..MaxProcs

\* the requests the concurrent clients send: well formed, for venue 1
ConcurrentBookings ==
    {r \in WellFormedBookings : r.venueId = Val(1) /\ r.startTime.v < r.endTime.v}

IdleProc == [pc |-> "idle", req |-> BaseBooking, res |-> Continue]

Suspend(p, r, pc) ==
    /\ inflight' = [inflight EXCEPT ![p] = [pc |-> pc, req |-> r, res |-> Continue]]
    /\ UNCHANGED <<db, res>>

Finish(p, r, answer) ==
    /\ inflight' = [inflight EXCEPT ![p] = [pc |-> "idle", req |-> r, res |-> answer]]
    /\ Reply(answer)
    /\ UNCHANGED db

\* lines 16-31: runs synchronously up to await Venue.findById
Begin(p, r) ==
    /\ live = "first"
    /\ inflight[p].pc = "idle"
    /\ LET v == Validate(r)
       IN  IF v # Continue THEN Finish(p, r, v) ELSE Suspend(p, r, "findVenue")
    /\ UNCHANGED <<config, now>>

\* mutant: a missing venue leaves the request waiting
AwaitVenueHangs(p) ==
    /\ inflight[p].pc = "findVenue"
    /\ LET r == inflight[p].req
           l == VenueLookup(r, venues)
       IN  IF l # Continue THEN Suspend(p, r, "findVenue") ELSE Suspend(p, r, "findOne")
    /\ UNCHANGED <<config, now>>

\* lines 34-37: Venue.findById resolves
AwaitVenue(p) ==
    /\ inflight[p].pc = "findVenue"
    /\ LET r == inflight[p].req
           l == VenueLookup(r, venues)
       IN  IF l # Continue THEN Finish(p, r, l) ELSE Suspend(p, r, "findOne")
    /\ UNCHANGED <<config, now>>

\* lines 41-50: Booking.findOne resolves
AwaitFindOne(p) ==
    /\ inflight[p].pc = "findOne"
    /\ LET r == inflight[p].req
           c == ConflictLookup(r, bookings)
       IN  IF c # Continue THEN Finish(p, r, c) ELSE Suspend(p, r, "save")
    /\ UNCHANGED <<config, now>>

\* lines 71-82: newBooking.save() resolves
AwaitSave(p) ==
    /\ inflight[p].pc = "save"
    /\ LET r == inflight[p].req
       IN  /\ SaveBooking(r, NewBooking(r, nextBooking + 1, now))
           /\ inflight' = [inflight EXCEPT
                    ![p] = [pc |-> "idle", req |-> r,
                            res |-> Response("createBooking", 201, MsgBooked,
                                             nextBooking + 1)]]
    /\ UNCHANGED <<config, now>>

\* lines 419-434: runs synchronously up to await newBooking.save
Begin2(p, r) ==
    /\ live = "second"
    /\ inflight[p].pc = "idle"
    /\ LET v == Validate2(r)
       IN  IF v # Continue THEN Finish(p, r, v) ELSE Suspend(p, r, "save2")
    /\ UNCHANGED <<config, now>>

\* lines 437-447: newBooking.save() resolves
AwaitSave2(p) ==
    /\ inflight[p].pc = "save2"
    /\ LET r == inflight[p].req
           v == SaveValidation2(r)
       IN  IF v # Continue
           THEN Finish(p, r, v)
           ELSE /\ SaveBooking(r, NewBooking2(r, nextBooking + 1, now))
                /\ inflight' = [inflight EXCEPT
                         ![p] = [pc |-> "idle", req |-> r,
                                 res |-> Response("createBooking", 201, MsgBooked,
                                                  nextBooking + 1)]]
    /\ UNCHANGED <<config, now>>

InitConc ==
    /\ strictQuery \in BOOLEAN
    /\ strictPopulate = TRUE
    /\ live \in {"first", "second"}
    /\ venues = {}
    /\ bookings = {}
    /\ slots = {}
    /\ bookedFor = <<>>
    /\ nextVenue = 0
    /\ nextBooking = 0
    /\ nextSlot = 0
    /\ now = 0
    /\ res = Continue
    /\ inflight = [p \in Procs |-> IdleProc]

NextConc ==
    \/ createVenue("Arena A", Val(1))
    \/ \E p \in Procs, r \in ConcurrentBookings : Begin(p, r)
    \/ \E p \in Procs : AwaitVenue(p)
    \/ \E p \in Procs : AwaitFindOne(p)
    \/ \E p \in Procs : AwaitSave(p)
    \/ \E p \in Procs, r \in ConcurrentBookings : Begin2(p, r)
    \/ \E p \in Procs : AwaitSave2(p)

SpecConc == InitConc /\ [][NextConc]_vars

\* ----------------------------------------------------- getVenueAvailability
MsgTimesRequired == "startTime and endTime query parameters are required."
MsgInvalidWindow == "Invalid or overlapping startTime/endTime provided."
MsgAvailabilityError == "Server error while fetching venue availability."

\* the startTime / endTime query parameters
TimeInputs == {Absent, Junk} \cup {Val(t) : t \in Instants}

\* mutant: no clamp
AvailableCourtsUnclamped(maxCourts, booked) == maxCourts - booked

\* Math.max(0, venue.maxCourts - overlappingBookingsCount)
AvailableCourts(maxCourts, booked) ==
    IF maxCourts - booked > 0 THEN maxCourts - booked ELSE 0

\* isNaN(checkStartTime.getTime()) || checkEndTime <= checkStartTime
InvalidWindow(checkStart, checkEnd) ==
    IsNaNDate(checkStart) \/ DateLE(checkEnd, checkStart)

\* Booking.countDocuments({ venue: id, startTime: {...}, endTime: {...} })
CountOverlapping(bks, id, checkStart, checkEnd) ==
    Cardinality({b \in bks : AvailabilityFilter(b, id, checkStart, checkEnd)})

\* the 200 response: data = <<maxCourts, bookedCourts, availableCourts,
\* requested startTime, requested endTime>>
AvailabilityReport(v, booked, checkStart, checkEnd) ==
    [Response("getVenueAvailability", 200, "", v.id)
     EXCEPT !.data = <<v.maxCourts, booked, AvailableCourts(v.maxCourts, booked),
                       checkStart, checkEnd>>]

\* the response of the handler for the request (id, startTime, endTime); a
\* CastError of findById or of countDocuments lands in the catch block
Availability(id, startTime, endTime) ==
    LET checkStart == NewDate(startTime)
        checkEnd == NewDate(endTime)
    IN  IF Falsy(startTime) \/ Falsy(endTime)
        THEN Response("getVenueAvailability", 400, MsgTimesRequired, 0)
        ELSE IF InvalidWindow(checkStart, checkEnd)
        THEN Response("getVenueAvailability", 400, MsgInvalidWindow, 0)
        ELSE IF ~CastableId(id)
        THEN Response("getVenueAvailability", 500, MsgAvailabilityError, 0)
        ELSE IF FindVenue(venues, id.v) = {}
        THEN Response("getVenueAvailability", 404, MsgVenueNotFound, 0)
        ELSE IF IsNaNDate(checkEnd)
        THEN Response("getVenueAvailability", 500, MsgAvailabilityError, 0)
        ELSE AvailabilityReport(CHOOSE v \in FindVenue(venues, id.v) : TRUE,
                                CountOverlapping(bookings, id.v, checkStart.t, checkEnd.t),
                                checkStart.t, checkEnd.t)

getVenueAvailability(id, startTime, endTime) ==
    /\ Idle
    /\ Reply(Availability(id, startTime, endTime))
    /\ UNCHANGED <<config, db, now, inflight>>

\* bookings with a proper window, for either venue and either court
WindowBookings == {r \in WellFormedBookings : r.startTime.v < r.endTime.v}

NextAvail ==
    \/ \E b \in {i \in VenueInputs : ~InvalidVenue(i[1], i[2])} : createVenue(b[1], b[2])
    \/ \E id \in {Val(i) : i \in VenueIds} : deleteVenue(id)
    \/ \E r \in WindowBookings : createBooking(r)
    \/ \E r \in WindowBookings : createBooking2(r)
    \/ \E id \in VenueIdInputs, s, e \in TimeInputs : getVenueAvailability(id, s, e)

SpecAvail == Init /\ [][NextAvail]_vars

\* ------------------------------- generateDailyBookingSlots, a call rejects
MaxFault == 3
FaultAt == 1..MaxFault

MsgGenerateError == "Server error while generating daily slots."

\* A run in which the awaited Slot.findOne / Slot.create of iteration k
\* rejects: the exception leaves the three loops and lands in the catch block
\* of line 258, after the iterations before k have run.
generateDailyBookingSlotsFault(k) ==
    /\ Idle
    /\ ~NoVenues(venues)
    /\ LET its == Iterations(venues, 1)
           out == GenerateLoop(SubSeq(its, 1, k - 1), 1, slots, <<>>, 0, now)
       IN  /\ k <= Len(its)
           /\ slots' = out.slots
           /\ nextSlot' = nextSlot + Len(out.created)
           /\ Reply(Response("generateDailyBookingSlots", 500, MsgGenerateError, 0))
           /\ UNCHANGED <<venues, bookings, bookedFor, nextVenue, nextBooking>>
    /\ UNCHANGED <<config, now, inflight>>

NextFault ==
    \/ \E b \in {i \in VenueInputs : ~InvalidVenue(i[1], i[2])} : createVenue(b[1], b[2])
    \/ \E id \in {Val(i) : i \in VenueIds} : deleteVenue(id)
    \/ generateDailyBookingSlots
    \/ \E k \in FaultAt : generateDailyBookingSlotsFault(k)

SpecFault == Init /\ [][NextFault]_vars

\* ---------------------------- generateDailyBookingSlots, await by await
\* Two runs of the generator; each await of the handler is a point where the
\* other run may proceed.
IdleRun == [pc |-> "idle", its |-> <<>>, i |-> 0, created |-> <<>>, skipped |-> 0]

\* lines 202-207: runs synchronously up to await Venue.find; a client whose
\* run went through the loop sends no further request
GenBegin(p) ==
    /\ inflight[p] = IdleRun
    /\ inflight' = [inflight EXCEPT ![p] = [IdleRun EXCEPT !.pc = "find"]]
    /\ UNCHANGED <<config, db, now, res>>

\* lines 207-213: Venue.find resolves
GenVenues(p) ==
    /\ inflight[p].pc = "find"
    /\ IF NoVenues(venues)
       THEN /\ inflight' = [inflight EXCEPT ![p] = IdleRun]
            /\ Reply(Response("generateDailyBookingSlots", 404, MsgNoVenues, 0))
       ELSE /\ inflight' = [inflight EXCEPT ![p] =
                    [IdleRun EXCEPT !.pc = "findOne", !.its = Iterations(venues, 1),
                                    !.i = 1]]
            /\ UNCHANGED res
    /\ UNCHANGED <<config, db, now>>

\* the end of one iteration: the next Slot.findOne, or the response of line 251
GenAdvance(p, run) ==
    IF run.i < Len(run.its)
    THEN /\ inflight' = [inflight EXCEPT ![p] =
                [run EXCEPT !.pc = "findOne", !.i = run.i + 1]]
         /\ UNCHANGED res
    ELSE /\ inflight' = [inflight EXCEPT ![p] = [run EXCEPT !.pc = "idle"]]
         /\ Reply([Response("generateDailyBookingSlots", 201, MsgSlotsGenerated, 0)
                   EXCEPT !.data = <<Len(run.created), run.skipped>>])

\* lines 226-233 and 244-246: Slot.findOne resolves
GenFindOne(p) ==
    /\ inflight[p].pc = "findOne"
    /\ LET run == inflight[p]
           doc == NewSlot(run.its[run.i], 0, now)
       IN  IF \E s \in slots : SlotFilter(s, doc.venue, doc.courtNumber,
                                          doc.startTime, doc.endTime)
           THEN GenAdvance(p, [run EXCEPT !.skipped = run.skipped + 1])
           ELSE /\ inflight' = [inflight EXCEPT ![p] = [run EXCEPT !.pc = "create"]]
                /\ UNCHANGED res
    /\ UNCHANGED <<config, db, now>>

\* the _id of the n-th document a request creates: the driver numbers the
\* documents of each request apart from those of the others
RunSlotId(p, n) == (n - 1) * MaxProcs + p

\* lines 234-243: Slot.create resolves
GenCreate(p) ==
    /\ inflight[p].pc = "create"
    /\ LET run == inflight[p]
           doc == NewSlot(run.its[run.i], RunSlotId(p, Len(run.created) + 1), now)
       IN  /\ slots' = slots \cup {doc}
           /\ nextSlot' = nextSlot + 1
           /\ GenAdvance(p, [run EXCEPT !.created = Append(run.created, doc.id)])
    /\ UNCHANGED <<config, venues, bookings, bookedFor, nextVenue, nextBooking, now>>

InitGen ==
    /\ strictQuery = FALSE
    /\ strictPopulate = TRUE
    /\ live = "second"
    /\ venues = {}
    /\ bookings = {}
    /\ slots = {}
    /\ bookedFor = <<>>
    /\ nextVenue = 0
    /\ nextBooking = 0
    /\ nextSlot = 0
    /\ now = 0
    /\ res = Continue
    /\ inflight = [p \in Procs |-> IdleRun]

NextGen ==
    \/ createVenue("Arena A", Val(1))
    \/ \E p \in Procs : GenBegin(p)
    \/ \E p \in Procs : GenVenues(p)
    \/ \E p \in Procs : GenFindOne(p)
    \/ \E p \in Procs : GenCreate(p)

SpecGen == InitGen /\ [][NextGen]_vars

\* ------------------------------------------------- the venue registry alone
\* venue bodies, those with a maxCourts that is no integer included
WideVenues ==
    VenueInputs \cup {<<"Arena A", Junk>>, <<"Arena B", Half(1)>>, <<"Arena B", Half(0)>>}

NextVenue ==
    \/ \E b \in WideVenues : createVenue(b[1], b[2])
    \/ \E id \in VenueIdInputs, b \in WideVenues : updateVenue(id, b[1], b[2])
    \/ \E id \in VenueIdInputs : deleteVenue(id)

SpecVenue == Init /\ [][NextVenue]_vars

\* ------------------------------------------------------- the booking lists
MsgListError == "Server error while fetching bookings."
MsgExpiredError == "Server error while fetching expired bookings."
MsgActiveError == "Server error while fetching active bookings."

\* endTime: { $lt: currentTime }
ExpiredFilter(doc, currentTime) == doc.endTime < currentTime

\* endTime: { $gte: currentTime }
ActiveFilter(doc, currentTime) == doc.endTime >= currentTime

\* the orders in which find() may return the documents S
AnyOrder(S) ==
    {seq \in [1..Cardinality(S) -> S] : \A i, j \in DOMAIN seq : seq[i] = seq[j] => i = j}

\* .sort({ path: 1 }): ascending on path, ties in any order
SortedBy(S, path) ==
    {seq \in AnyOrder(S) : \A i, j \in DOMAIN seq : i < j => seq[i][path] <= seq[j][path]}

\* .populate('venue'), which the definitions of lines 98-167 call and those of
\* lines 455-520 do not: it throws when the schema lacks the path and the ODM
\* is strict about it
PopulateThrows(paths) == live = "first" /\ strictPopulate /\ "venue" \notin paths

\* a list handler: the 500 of its catch block, or the 200 with one of lists
ListReply(op, message, lists) ==
    /\ Idle
    /\ IF PopulateThrows(BookingPaths)
       THEN Reply(Response(op, 500, message, 0))
       ELSE \E seq \in lists : Reply([Response(op, 200, "", 0) EXCEPT !.data = seq])
    /\ UNCHANGED <<config, db, now, inflight>>

getAllBookings == ListReply("getAllBookings", MsgListError, AnyOrder(bookings))

getExpiredBookings ==
    ListReply("getExpiredBookings", MsgExpiredError,
              SortedBy({b \in bookings : ExpiredFilter(b, now)}, "endTime"))

getActiveBookings ==
    ListReply("getActiveBookings", MsgActiveError,
              SortedBy({b \in bookings : ActiveFilter(b, now)}, "startTime"))

\* the defaults of the ODM's major versions: <<strictQuery, strictPopulate>>
OdmDefaults == {<<FALSE, FALSE>>, <<TRUE, TRUE>>, <<FALSE, TRUE>>}

InitList ==
    /\ \E d \in OdmDefaults : strictQuery = d[1] /\ strictPopulate = d[2]
    /\ live \in {"first", "second"}
    /\ venues = {}
    /\ bookings = {}
    /\ slots = {}
    /\ bookedFor = <<>>
    /\ nextVenue = 0
    /\ nextBooking = 0
    /\ nextSlot = 0
    /\ now = 0
    /\ res = Continue
    /\ inflight = NoProcs

\* bookings of Court 1 at venue 1 with a proper window
ListBookings ==
    {r \in WindowBookings : r.venueId = Val(1) /\ r.courtNumber = "Court 1"}

NextList ==
    \/ createVenue("Arena A", Val(1))
    \/ \E r \in ListBookings : createBooking(r)
    \/ \E r \in ListBookings : createBooking2(r)
    \/ Tick
    \/ getAllBookings
    \/ getExpiredBookings
    \/ getActiveBookings

SpecList == InitList /\ [][NextList]_vars

\* ------------------------------------- requests in flight, scheduled fairly
\* One client books and one runs the generator, each await by await, while
\* venues are created in between.
Booker == 1
Generator == 2

\* the bookings the client sends: one well formed, one that ends when it starts
LiveBookings == {BaseBooking, [BaseBooking EXCEPT !.endTime = Val(0)]}

InitLive ==
    /\ strictQuery \in BOOLEAN
    /\ strictPopulate = TRUE
    /\ live \in {"first", "second"}
    /\ venues = {}
    /\ bookings = {}
    /\ slots = {}
    /\ bookedFor = <<>>
    /\ nextVenue = 0
    /\ nextBooking = 0
    /\ nextSlot = 0
    /\ now = 0
    /\ res = Continue
    /\ inflight = [p \in {Booker, Generator} |-> IF p = Booker THEN IdleProc ELSE IdleRun]

NextLive ==
    \/ createVenue("Arena A", Val(1))
    \/ \E r \in LiveBookings : nextBooking < MaxBookings /\ Begin(Booker, r)
    \/ AwaitVenue(Booker)
    \/ AwaitFindOne(Booker)
    \/ AwaitSave(Booker)
    \/ \E r \in LiveBookings : nextBooking < MaxBookings /\ Begin2(Booker, r)
    \/ AwaitSave2(Booker)
    \/ GenBegin(Generator)
    \/ GenVenues(Generator)
    \/ GenFindOne(Generator)
    \/ GenCreate(Generator)

\* the event loop resumes every handler whose awaited call has settled
Resumes ==
    /\ WF_vars(AwaitVenue(Booker))
    /\ WF_vars(AwaitFindOne(Booker))
    /\ WF_vars(AwaitSave(Booker))
    /\ WF_vars(AwaitSave2(Booker))
    /\ WF_vars(GenVenues(Generator))
    /\ WF_vars(GenFindOne(Generator))
    /\ WF_vars(GenCreate(Generator))

SpecLive == InitLive /\ [][NextLive]_vars /\ Resumes

\* --------------------------------------- the registry and the generator
\* venue requests with any maxCourts a body can carry, and generation runs
NextCourts ==
    \/ NextVenue
    \/ generateDailyBookingSlots

SpecCourts == Init /\ [][NextCourts]_vars

\* ------------------------------------- bookings beside the generated slots
\* the first hour the generator covers, counted from the start of the clock
FirstSlotHour == Tomorrow(0) + FirstHour

\* a booking of the first generated hour
SlotHourBooking ==
    [BaseBooking EXCEPT !.startTime = Val(FirstSlotHour),
                        !.endTime = Val(FirstSlotHour + 1)]

\* bookings of an early hour and of a generated hour, at either venue
ApartBookings ==
    {BaseBooking, SlotHourBooking, [SlotHourBooking EXCEPT !.venueId = Val(2)]}

ApartVenues == {<<"Arena A", Val(1)>>, <<"Arena B", Val(2)>>}

NextApart ==
    \/ \E b \in ApartVenues : createVenue(b[1], b[2])
    \/ \E id \in {Val(i) : i \in VenueIds} : deleteVenue(id)
    \/ \E r \in ApartBookings : createBooking(r)
    \/ \E r \in ApartBookings : createBooking2(r)
    \/ \E id \in {Val(i) : i \in BookingIds} : deleteBooking(id)
    \/ generateDailyBookingSlots

SpecApart == Init /\ [][NextApart]_vars

\* ------------------------------------------- every operation, one at a time
\* the requests sent: one well-formed booking, one that ends before it starts
\* and one without a name; two venues and one without courts; four windows
FrameBookings ==
    {BaseBooking, [BaseBooking EXCEPT !.endTime = Val(0)],
     [BaseBooking EXCEPT !.bookedBy = ""]}

FrameVenues == {<<"Arena A", Val(1)>>, <<"Arena B", Val(2)>>, <<"Arena A", Val(0)>>}

FrameWindows == {<<Val(0), Val(1)>>, <<Val(1), Val(0)>>, <<Absent, Val(1)>>, <<Val(0), Junk>>}

NextFrame ==
    \/ \E r \in FrameBookings : createBooking(r)
    \/ \E r \in FrameBookings : createBooking2(r)
    \/ \E id \in BookingIdInputs : deleteBooking(id)
    \/ \E b \in FrameVenues : createVenue(b[1], b[2])
    \/ \E id \in VenueIdInputs, b \in FrameVenues : updateVenue(id, b[1], b[2])
    \/ \E id \in VenueIdInputs : deleteVenue(id)
    \/ \E id \in VenueIdInputs, w \in FrameWindows : getVenueAvailability(id, w[1], w[2])
    \/ generateDailyBookingSlots

SpecFrame == Init /\ [][NextFrame]_vars

\* ================================================================== claims
\* The interval overlap of the specification: [aStart, aEnd) and
\* [bStart, bEnd) overlap iff aStart < bEnd and bStart < aEnd.
Overlaps(aStart, aEnd, bStart, bEnd) == aStart < bEnd /\ bStart < aEnd

\* the venue a booking was requested for
VenueOf(b) == bookedFor[b.id]

SameCourt(a, b) == VenueOf(a) = VenueOf(b) /\ a.courtNumber = b.courtNumber

DoubleBooked(a, b) ==
    /\ a.id # b.id
    /\ CastableId(VenueOf(a))
    /\ SameCourt(a, b)
    /\ Overlaps(a.startTime, a.endTime, b.startTime, b.endTime)

\* a request with every field present, parseable times and endTime > startTime
ValidRequest(r) ==
    /\ r \in WellFormedBookings
    /\ r.startTime.v < r.endTime.v

VenueExists(r) == CastableId(r.venueId) /\ FindVenue(venues, r.venueId.v) # {}

\* b was requested for r's venue and court and overlaps r's interval
Clashes(r, b) ==
    /\ VenueOf(b) = r.venueId
    /\ b.courtNumber = r.courtNumber
    /\ Overlaps(r.startTime.v, r.endTime.v, b.startTime, b.endTime)

\* the handler bound to POST /api/bookings serving request r
Serves(r) == createBooking(r) \/ createBooking2(r)

\* C1: in every state reached by requests run one at a time, no two bookings
\* requested for the same venue and court have overlapping intervals.
C1_NoDoubleBooking ==
    \A a \in bookings : \A b \in bookings : ~DoubleBooked(a, b)

\* C2: of two concurrent createBooking requests for overlapping intervals on
\* the same venue and court, at most one persists a Booking.
C2_AtMostOneWins ==
    \A p \in DOMAIN inflight : \A q \in DOMAIN inflight :
        (/\ p # q
         /\ inflight[p].res.status = 201
         /\ inflight[q].res.status = 201
         /\ inflight[p].res.id # inflight[q].res.id
         /\ inflight[p].req.venueId = inflight[q].req.venueId
         /\ inflight[p].req.courtNumber = inflight[q].req.courtNumber
         /\ Overlaps(inflight[p].req.startTime.v, inflight[p].req.endTime.v,
                     inflight[q].req.startTime.v, inflight[q].req.endTime.v))
        => ~(\E a \in bookings : \E b \in bookings :
                a.id = inflight[p].res.id /\ b.id = inflight[q].res.id)

\* C3: a valid request for an existing venue whose interval overlaps a
\* persisted booking for the same venue and court is answered 409 Conflict
\* and leaves the bookings as they were.
C3_OverlapIsConflict ==
    [][\A r \in BookingRequests :
          (/\ ValidRequest(r)
           /\ VenueExists(r)
           /\ \E b \in bookings : Clashes(r, b)
           /\ Serves(r))
          => (res'.status = 409 /\ bookings' = bookings)]_vars

\* C4: a valid request for an existing venue succeeds when every booking of
\* that venue that overlaps its interval is on another court.
C4_OtherCourtSucceeds ==
    [][\A r \in BookingRequests :
          (/\ ValidRequest(r)
           /\ VenueExists(r)
           /\ \A b \in bookings : ~Clashes(r, b)
           /\ Serves(r))
          => res'.status = 201]_vars

\* C5: the time condition of createBooking's conflict query and of
\* getVenueAvailability's count is exactly the half-open overlap, for every
\* stored booking and every window; a valid request for an existing venue that
\* overlaps no booking on its court (touching ones included) is answered 201,
\* and a 409 is only ever caused by a booking that overlaps on that court.
C5_HalfOpenOverlap ==
    /\ \A b \in bookings : \A s \in Instants : \A e \in Instants :
            /\ TimeFilter(b, s, e) = Overlaps(s, e, b.startTime, b.endTime)
            /\ AvailabilityTimeFilter(b, s, e) = Overlaps(s, e, b.startTime, b.endTime)
    /\ \A r \in BookingRequests :
            (ValidRequest(r) /\ VenueExists(r))
            => /\ (\A b \in bookings :
                        b.courtNumber = r.courtNumber
                        => ~Overlaps(r.startTime.v, r.endTime.v, b.startTime, b.endTime))
                  => PostBookings(r).status = 201
               /\ PostBookings(r).status = 409
                  => \E b \in bookings :
                        /\ b.courtNumber = r.courtNumber
                        /\ Overlaps(r.startTime.v, r.endTime.v, b.startTime, b.endTime)

\* a booking was just admitted that starts exactly where another booking of
\* the same venue and court ends
C5_TouchingAdmitted ==
    /\ res.op = "createBooking"
    /\ res.status = 201
    /\ live = "first"
    /\ strictQuery
    /\ \E a \in bookings : \E b \in bookings :
            /\ b.id = res.id
            /\ a.id # b.id
            /\ CastableId(VenueOf(a))
            /\ SameCourt(a, b)
            /\ a.endTime = b.startTime

\* C6: the record persisted by a successful createBooking carries the
\* request's venueId, courtNumber, startTime, endTime and bookedBy, and the
\* creation time as bookingDate.
C6_PersistedAsRequested ==
    [][\A r \in BookingRequests :
          (Serves(r) /\ res'.status = 201)
          => \E b \in bookings' :
                /\ b.id = res'.id
                /\ "venue" \in DOMAIN b
                /\ b.venue = r.venueId.v
                /\ b.courtNumber = r.courtNumber
                /\ b.startTime = r.startTime.v
                /\ b.endTime = r.endTime.v
                /\ b.bookedBy = r.bookedBy
                /\ b.bookingDate = now]_vars

\* endTime <= startTime, both parseable
EndsBeforeStart(r) ==
    /\ r.startTime.k = "ok"
    /\ r.endTime.k = "ok"
    /\ r.endTime.v <= r.startTime.v

\* C7: a request whose endTime is not after its startTime is answered 400,
\* whatever its venueId and courtNumber, and a 400 stores no booking.
C7_EndBeforeStartInvalid ==
    /\ [](\A r \in BookingRequests : EndsBeforeStart(r) => PostBookings(r).status = 400)
    /\ [][(res'.op = "createBooking" /\ res'.status = 400)
           => bookings' = bookings]_vars

\* an endTime <= startTime request was just refused while no venue exists
C7_RefusedWithoutVenue ==
    /\ res.op = "createBooking"
    /\ res.status = 400
    /\ res.message = MsgEndAfterStart
    /\ venues = {}
    /\ bookings # {}

\* C8: a valid request whose venueId resolves to no venue is answered 404
\* and stores no booking.
C8_UnknownVenueNotFound ==
    [][\A r \in BookingRequests :
          (ValidRequest(r) /\ ~VenueExists(r) /\ Serves(r))
          => (res'.status = 404 /\ bookings' = bookings)]_vars

\* every field present, startTime or endTime not a parseable instant
Unparseable(r) ==
    /\ ~Falsy(r.venueId)
    /\ r.courtNumber # ""
    /\ r.bookedBy # ""
    /\ r.startTime.k # "absent"
    /\ r.endTime.k # "absent"
    /\ (r.startTime.k = "junk" \/ r.endTime.k = "junk")

\* C9: a request for an existing venue with an unparseable startTime or
\* endTime is answered 400
\* and stores no booking.
C9_UnparseableInvalid ==
    [][\A r \in BookingRequests :
          (Unparseable(r) /\ VenueExists(r) /\ Serves(r))
          => (res'.status = 400 /\ bookings' = bookings)]_vars

\* C10: a successful createBooking adds exactly one booking, the one it
\* returns, and changes no other booking, no venue and no slot.
C10_OnlyOneBookingAdded ==
    [][(res' # res /\ res'.op = "createBooking" /\ res'.status = 201)
       => /\ \E b \in bookings' :
                /\ b.id = res'.id
                /\ b \notin bookings
                /\ bookings' = bookings \cup {b}
          /\ venues' = venues
          /\ slots' = slots]_vars

\* a booking was just added next to an older one, with venues and slots stored
C10_AddedAmongOthers ==
    /\ res.op = "createBooking"
    /\ res.status = 201
    /\ Cardinality(bookings) >= 2
    /\ venues # {}
    /\ slots # {}

\* ------------------------------------------------------------ the slot grid
RECURSIVE TotalCourts(_)
\* the sum of maxCourts over a set of venues
TotalCourts(vs) ==
    IF vs = {} THEN 0
    ELSE LET v == CHOOSE x \in vs : TRUE
         IN  v.maxCourts + TotalCourts(vs \ {v})

\* no slot starts within the day that begins at instant day
NoSlotsForDay(day) ==
    \A s \in slots : s.startTime < day \/ s.startTime >= day + 24

\* the last completed request was a generation run that went through
JustGenerated ==
    /\ res.op = "generateDailyBookingSlots"
    /\ res.status = 201

\* two slots for the same (venue, courtNumber, startTime, endTime)
SameSlot(s, t) ==
    /\ s.venue = t.venue
    /\ s.courtNumber = t.courtNumber
    /\ s.startTime = t.startTime
    /\ s.endTime = t.endTime

C12_OneSlotPerTuple ==
    \A s, t \in slots : SameSlot(s, t) => s = t

\* a run that followed a venue update created some slots and skipped others
C12_RegeneratedAfterUpdate ==
    /\ JustGenerated
    /\ res.data[1] > 0
    /\ res.data[2] > 0

\* C14: from a day without slots, a run creates for every venue, every court
\* 1..maxCourts and every hour 9..16 of tomorrow exactly one slot, named
\* "Court <index>", one hour long, booked by "AUTO", not booked, and no other.
C14_EightSlotsPerCourt ==
    [][(venues # {} /\ NoSlotsForDay(Tomorrow(now)) /\ res'.status = 201
            /\ generateDailyBookingSlots)
       => LET new == slots' \ slots
              day == Tomorrow(now)
              Wanted(s, v, c, h) ==
                  /\ s.venue = v.id
                  /\ s.courtNumber = "Court " \o ToString(c)
                  /\ s.startTime = day + h
              Places == {<<v, c, h>> \in venues \X (1..MaxVenues) \X (9..16) :
                            c <= v.maxCourts}
          IN  /\ \A pl \in Places :
                    Cardinality({s \in new : Wanted(s, pl[1], pl[2], pl[3])}) = 1
              /\ \A s \in new :
                    /\ \E pl \in Places : Wanted(s, pl[1], pl[2], pl[3])
                    /\ s.endTime = s.startTime + 1
                    /\ s.bookedBy = "AUTO"
                    /\ s.isSlotBooked = FALSE]_vars

\* a first run over two venues with three courts has just created 24 slots
C14_GridCreated ==
    /\ JustGenerated
    /\ res.data = <<24, 0>>
    /\ Cardinality(slots) = 24

\* C16: a run started when no venue is stored is answered 404 and creates no
\* slot.
C16_NoVenuesNotFound ==
    [][(venues = {} /\ generateDailyBookingSlots)
       => /\ res'.op = "generateDailyBookingSlots"
          /\ res'.status = 404
          /\ slots' = slots]_vars

\* a run was refused for lack of venues while older slots are still stored
C16_RefusedWithOldSlots ==
    /\ res.op = "generateDailyBookingSlots"
    /\ res.status = 404
    /\ venues = {}
    /\ slots # {}

\* C13: while two runs of the generator interleave their lookups and creates,
\* no slot created by one run has the (venue, courtNumber, startTime, endTime)
\* of a slot created by the other.
C13_NoSlotCreatedTwice ==
    \A p, q \in DOMAIN inflight, s, t \in slots :
        (/\ p # q
         /\ \E n \in DOMAIN inflight[p].created : inflight[p].created[n] = s.id
         /\ \E n \in DOMAIN inflight[q].created : inflight[q].created[n] = t.id)
        => ~SameSlot(s, t)

\* C15: when one awaited slot call of a run rejects, the slots of all other
\* iterations of that run are stored once the run has ended.
C15_FaultSkipsOneSlot ==
    [][\A k \in FaultAt :
          (venues # {} /\ res'.status = 500 /\ generateDailyBookingSlotsFault(k))
          => LET its == Iterations(venues, 1)
             IN  \A j \in DOMAIN its :
                    j # k => \E s \in slots' :
                                /\ s.venue = its[j].venue
                                /\ s.courtNumber = "Court " \o ToString(its[j].court)
                                /\ s.startTime = Tomorrow(now) + its[j].hour]_vars

\* ------------------------------------------------------------ availability
\* the last completed request was an availability query that went through
JustReported ==
    /\ res.op = "getVenueAvailability"
    /\ res.status = 200

\* C17: for every stored venue and every window that ends after it starts,
\* the availability query answers availableCourts = max(0, maxCourts -
\* bookedCourts), which is never negative, also when bookedCourts exceeds
\* maxCourts.
C17_AvailabilityClamped ==
    /\ \A v \in venues, s, e \in Instants :
          s < e =>
            LET a == Availability(Val(v.id), Val(s), Val(e))
            IN  /\ a.status = 200
                /\ a.data[1] = v.maxCourts
                /\ a.data[3] >= 0
                /\ a.data[3] = (IF v.maxCourts > a.data[2]
                                THEN v.maxCourts - a.data[2] ELSE 0)
    /\ JustReported =>
          /\ res.data[3] >= 0
          /\ res.data[3] = (IF res.data[1] > res.data[2]
                            THEN res.data[1] - res.data[2] ELSE 0)

\* a query has just reported more booked courts than the venue has, and no
\* court available
C17_MoreBookedThanCourts ==
    /\ JustReported
    /\ res.data[2] > res.data[1]
    /\ res.data[3] = 0

\* C18: the bookedCourts of an availability response is the number of stored
\* bookings made for the queried venue whose interval overlaps the window.
C18_CountsVenueBookings ==
    JustReported =>
        res.data[2] = Cardinality({b \in bookings :
                            /\ VenueOf(b) = Val(res.id)
                            /\ Overlaps(res.data[4], res.data[5],
                                        b.startTime, b.endTime)})

\* startTime or endTime missing or unparseable, or endTime <= startTime
BadWindow(s, e) ==
    \/ s.k # "ok"
    \/ e.k # "ok"
    \/ e.v <= s.v

\* C19: an availability query is answered 400 when startTime or endTime is
\* missing or unparseable or endTime <= startTime, and 404 when the window is
\* valid and the venue id is well formed but resolves to no stored venue.
C19_BadWindowInvalid ==
    [][\A id \in VenueIdInputs, s, e \in TimeInputs :
          (res'.op = "getVenueAvailability" /\ getVenueAvailability(id, s, e))
          => IF BadWindow(s, e) THEN res'.status = 400
             ELSE (CastableId(id) /\ FindVenue(venues, id.v) = {})
                     => res'.status = 404]_vars

\* C20: deleteBooking and deleteVenue answer 404 when the id resolves to no
\* stored record; otherwise they answer 200 and the record is gone, so that
\* the same id resolves to nothing from then on.
C20_DeleteThenNotFound ==
    [][/\ \A id \in BookingIdInputs :
             (res'.op = "deleteBooking" /\ deleteBooking(id))
             => IF CastableId(id) /\ (\E b \in bookings : b.id = id.v)
                THEN res'.status = 200 /\ (\A b \in bookings' : b.id # id.v)
                ELSE res'.status = 404 /\ bookings' = bookings
       /\ \A id \in VenueIdInputs :
             (res'.op = "deleteVenue" /\ deleteVenue(id))
             => IF CastableId(id) /\ FindVenue(venues, id.v) # {}
                THEN res'.status = 200 /\ FindVenue(venues', id.v) = {}
                ELSE res'.status = 404 /\ venues' = venues]_vars

\* ------------------------------------------------------------------ frames
\* C21: a deleteVenue answered 200 removes that venue and leaves every booking
\* and every slot, those of the deleted venue included, as they were; a
\* deleteBooking answered 200 removes that booking and leaves the other
\* bookings, the venues and the slots as they were.
C21_DeletesDoNotCascade ==
    [][/\ \A id \in VenueIdInputs :
             (res'.op = "deleteVenue" /\ res'.status = 200 /\ deleteVenue(id))
             => /\ venues' = venues \ FindVenue(venues, id.v)
                /\ bookings' = bookings
                /\ slots' = slots
       /\ \A id \in BookingIdInputs :
             (res'.op = "deleteBooking" /\ res'.status = 200 /\ deleteBooking(id))
             => /\ bookings' = {b \in bookings : b.id # id.v}
                /\ venues' = venues
                /\ slots' = slots]_vars

\* a venue was just deleted while slots of it and a booking made for it stay
C21_OrphansKept ==
    /\ res.op = "deleteVenue"
    /\ res.status = 200
    /\ \E sl \in slots : sl.venue = res.id
    /\ \E b \in bookings : VenueOf(b) = Val(res.id)

\* C24: a request answered 400, 404 or 409 has written nothing: venues,
\* bookings and slots are the same before and after it.
C24_RejectedWritesNothing ==
    [][res'.status \in {400, 404, 409}
       => /\ venues' = venues
          /\ bookings' = bookings
          /\ slots' = slots]_vars

\* an update was just refused for a taken name, with bookings and slots stored
C24_UpdateRefused ==
    /\ res.op = "updateVenue"
    /\ res.status = 409
    /\ bookings # {}
    /\ slots # {}

\* ---------------------------------------------------------- venue registry
\* C22: no two stored venues have the same name; a createVenue, or an
\* updateVenue of a stored venue, with valid fields and a name another venue
\* holds is answered 409 and leaves the venues as they were.
C22_UniqueNames ==
    /\ [](\A v, w \in venues : v.name = w.name => v = w)
    /\ [][/\ \A b \in VenueInputs :
                (/\ res'.op = "createVenue"
                 /\ ~InvalidVenue(b[1], b[2])
                 /\ \E v \in venues : v.name = b[1]
                 /\ createVenue(b[1], b[2]))
                => (res'.status = 409 /\ venues' = venues)
          /\ \A id \in VenueIdInputs, b \in VenueInputs :
                (/\ res'.op = "updateVenue"
                 /\ ~InvalidVenue(b[1], b[2])
                 /\ CastableId(id)
                 /\ \E v \in venues : v.id = id.v
                 /\ \E v \in venues : v.name = b[1] /\ v.id # id.v
                 /\ updateVenue(id, b[1], b[2]))
                => (res'.status = 409 /\ venues' = venues)]_vars

\* one of two stored venues was just refused the name of the other
C22_RenameRefused ==
    /\ res.op = "updateVenue"
    /\ res.status = 409
    /\ Cardinality(venues) = 2

\* maxCourts missing, below 1 or no integer
BadCourts(maxCourts) ==
    \/ maxCourts.k # "ok"
    \/ maxCourts.v < 1

\* C23: every stored venue has an integer maxCourts >= 1; a createVenue or
\* updateVenue whose maxCourts is missing, below 1 or no integer is answered
\* 400 and leaves the venues as they were.
C23_WholeCourts ==
    /\ [](\A v \in venues : v.whole /\ v.maxCourts >= 1)
    /\ [][/\ \A b \in WideVenues :
                (res'.op = "createVenue" /\ BadCourts(b[2]) /\ createVenue(b[1], b[2]))
                => (res'.status = 400 /\ venues' = venues)
          /\ \A id \in VenueIdInputs, b \in WideVenues :
                (res'.op = "updateVenue" /\ BadCourts(b[2]) /\ updateVenue(id, b[1], b[2]))
                => (res'.status = 400 /\ venues' = venues)]_vars

\* ------------------------------------------------------------------- lists
\* the elements of a list
Listed(seq) == {seq[i] : i \in DOMAIN seq}

\* listed once each
NoRepeat(seq) == \A i, j \in DOMAIN seq : seq[i] = seq[j] => i = j

\* listed once each, ascending on path
Ascending(seq, path) ==
    /\ \A i, j \in DOMAIN seq : i < j => seq[i][path] <= seq[j][path]
    /\ NoRepeat(seq)

\* C25: at the current time, the expired list holds exactly the bookings with
\* endTime < now, ascending on endTime; the active list exactly those with
\* endTime >= now, ascending on startTime; the two are disjoint and together
\* hold exactly the bookings of the full list.
C25_ListsPartition ==
    [][/\ (res'.op = "getExpiredBookings" /\ getExpiredBookings)
             => /\ res'.status = 200
                /\ Listed(res'.data) = {b \in bookings : b.endTime < now}
                /\ Ascending(res'.data, "endTime")
       /\ (res'.op = "getActiveBookings" /\ getActiveBookings)
             => /\ res'.status = 200
                /\ Listed(res'.data) = {b \in bookings : b.endTime >= now}
                /\ Ascending(res'.data, "startTime")
       /\ (res'.op = "getAllBookings" /\ getAllBookings)
             => /\ res'.status = 200
                /\ Listed(res'.data) = {b \in bookings : b.endTime < now}
                                       \cup {b \in bookings : b.endTime >= now}
                /\ NoRepeat(res'.data)]_vars

\* ---------------------------------------------------------------- progress
\* the operation a client's requests belong to
OpOf(p) == IF p = Booker THEN "createBooking" ELSE "generateDailyBookingSlots"

BeyondCapacity(r) ==
    \E v \in FindVenue(venues, r.venueId.v) :
        \/ Cardinality({b \in bookings :
                 /\ VenueOf(b) = r.venueId
                 /\ Overlaps(r.startTime.v, r.endTime.v, b.startTime, b.endTime)})
              >= v.maxCourts + (IF v.whole THEN 0 ELSE 1)
        \/ r.courtNumber \notin {CourtName(c) : c \in 1..v.maxCourts}

\* C27: a valid request for an existing venue and a court of it that no
\* booking of that venue occupies in the window is answered 201 even when the
\* venue already has maxCourts bookings overlapping the window or the court is
\* not among the venue's courts.
C27_CapacityNotConsulted ==
    [][\A r \in BookingRequests :
          (/\ res'.op = "createBooking"
           /\ ValidRequest(r)
           /\ VenueExists(r)
           /\ \A b \in bookings : ~Clashes(r, b)
           /\ BeyondCapacity(r)
           /\ Serves(r))
          => res'.status = 201]_vars

\* ------------------------------------------------------------------ counts
\* twice the sum of maxCourts over the venues vs
TwiceCourts(vs) == 2 * TotalCourts(vs) + Cardinality({v \in vs : ~v.whole})

\* C28: a generation run answered 201 reports created + skipped equal to
\* 8 times the sum of maxCourts over the stored venues, and a created count
\* equal to the number of slots the run added.
C28_CountsAddUp ==
    [][(res'.op = "generateDailyBookingSlots" /\ res'.status = 201
            /\ generateDailyBookingSlots)
       => /\ 2 * (res'.data[1] + res'.data[2]) = 8 * TwiceCourts(venues)
          /\ res'.data[1] = Cardinality(slots' \ slots)]_vars

\* ----------------------------------------------------------------- freeing
\* the status POST /api/bookings would answer r with, over venues vs and
\* bookings bks
StatusFor(r, vs, bks) ==
    IF live = "first" THEN Answer(r, vs, bks).status ELSE Answer2(r).status

\* C29: once deleteBooking has answered 200 for booking b, a valid request
\* for b's venue and court whose interval overlaps b's, and overlaps no other
\* stored booking of that venue and court, is answered 201.
C29_DeleteFreesInterval ==
    [][\A b \in bookings :
          (res'.op = "deleteBooking" /\ res'.status = 200 /\ deleteBooking(Val(b.id)))
          => \A r \in WellFormedBookings :
                (/\ ValidRequest(r)
                 /\ VenueExists(r)
                 /\ Clashes(r, b)
                 /\ \A c \in bookings' : ~Clashes(r, c))
                => StatusFor(r, venues', bookings') = 201]_vars

\* ------------------------------------------------------------ interference
\* b has r's court number and overlaps r's interval
SameNameOverlap(r, b) ==
    /\ b.courtNumber = r.courtNumber
    /\ Overlaps(r.startTime.v, r.endTime.v, b.startTime, b.endTime)

\* C30: a valid request for an existing venue is answered 201 when the
\* stored bookings with its court number that overlap its interval were all
\* made for other venues, and the bookedCourts of an availability response
\* counts no booking made for another venue than the queried one.
C30_VenuesDoNotInterfere ==
    /\ [](JustReported =>
             res.data[2] <= Cardinality({b \in bookings :
                                 /\ VenueOf(b) = Val(res.id)
                                 /\ Overlaps(res.data[4], res.data[5],
                                             b.startTime, b.endTime)}))
    /\ [][\A r \in WindowBookings :
             (/\ res'.op = "createBooking"
              /\ VenueExists(r)
              /\ \E b \in bookings : SameNameOverlap(r, b)
              /\ \A b \in bookings : SameNameOverlap(r, b) => VenueOf(b) # r.venueId
              /\ Serves(r))
             => res'.status = 201]_vars

\* ------------------------------------------------------- order of the checks
\* one of the five fields of the body is missing
Incomplete(r) ==
    \/ r.venueId.k = "absent"
    \/ r.courtNumber = ""
    \/ r.startTime.k = "absent"
    \/ r.endTime.k = "absent"
    \/ r.bookedBy = ""

\* C31: createBooking reports the earliest failed check in the order missing
\* field (400), endTime <= startTime (400), venue not found (404), overlap
\* (409): an incomplete request is answered 400; a complete one with
\* endTime <= startTime is answered 400 also when its venue does not exist; a
\* valid one for a venue that does not exist is answered 404 also when a
\* stored booking overlaps it; and 409 is answered only to a valid request
\* for an existing venue.
C31_EarliestCheckReported ==
    [][\A r \in BookingRequests :
          (res'.op = "createBooking" /\ Serves(r))
          => /\ Incomplete(r) => res'.status = 400
             /\ (~Incomplete(r) /\ EndsBeforeStart(r)) => res'.status = 400
             /\ (ValidRequest(r) /\ ~VenueExists(r)) => res'.status = 404
             /\ res'.status = 409 => (ValidRequest(r) /\ VenueExists(r))]_vars

\* ------------------------------------------------------------ independence
\* the (venue, court, hour) places of tomorrow's grid for the venues vs
GridPlaces(vs) ==
    {pl \in vs \X (1..MaxVenues) \X (FirstHour..(EndHour - 1)) :
        pl[2] <= pl[1].maxCourts}

\* slot s is the slot of place pl on the day that starts at instant day
AtPlace(s, pl, day) ==
    /\ s.venue = pl[1].id
    /\ s.courtNumber = CourtName(pl[2])
    /\ s.startTime = day + pl[3]
    /\ s.endTime = day + pl[3] + 1

\* C32: the answer to a createBooking request and the bookings it leaves are
\* determined by the request, the venues and the bookings, whatever slots are
\* stored, and the request leaves the slots as they were; the counts a
\* generation run reports and the slots it leaves are determined by the
\* venues and the slots, whatever bookings are stored, and the run leaves the
\* bookings as they were.
C32_BookingsAndSlotsApart ==
    /\ [][\A r \in ApartBookings :
             (res'.op = "createBooking" /\ Serves(r))
             => /\ res' = PostBookings(r)
                /\ slots' = slots
                /\ IF PostBookings(r).status = 201
                   THEN \E b \in bookings' :
                           /\ b.id = nextBooking + 1
                           /\ b.courtNumber = r.courtNumber
                           /\ b.startTime = r.startTime.v
                           /\ b.endTime = r.endTime.v
                           /\ bookings' = bookings \cup {b}
                   ELSE bookings' = bookings]_vars
    /\ [][(res'.op = "generateDailyBookingSlots" /\ res'.status = 201
              /\ generateDailyBookingSlots)
          => LET day == Tomorrow(now)
                 open == {pl \in GridPlaces(venues) :
                             \A s \in slots : ~AtPlace(s, pl, day)}
             IN  /\ bookings' = bookings
                 /\ res'.data = <<Cardinality(open),
                                  Cardinality(GridPlaces(venues)) - Cardinality(open)>>
                 /\ slots \subseteq slots'
                 /\ Cardinality(slots' \ slots) = Cardinality(open)
                 /\ \A pl \in open : \E s \in slots' \ slots : AtPlace(s, pl, day)]_vars

\* a run has just created the whole grid although a booking made for one of
\* its venues covers one of its hours on the same court
C32_SlotUnderBooking ==
    /\ JustGenerated
    /\ res.data[2] = 0
    /\ \E b \in bookings, s \in slots :
          /\ VenueOf(b) = Val(s.venue)
          /\ b.courtNumber = s.courtNumber
          /\ b.startTime = s.startTime
          /\ b.endTime = s.endTime

====
